---- MODULE Spec2Model ----
(* The Google-News engine of searx (searx/engines/google_news.py):            *)
(* request(query, params) builds the outbound URL and headers, and            *)
(* response(resp) detects the "sorry" interception pages and extracts the     *)
(* result records from the result blocks of the returned document.            *)
(*                                                                            *)
(* Strings are sequences of tokens.  A token is an indivisible run of         *)
(* characters; every delimiter the code looks at (":", "/", "?", "&", "=",    *)
(* ";", " ", "-", ",") is a token of its own, and so is the literal "http"    *)
(* the URL pattern looks for, so "https://a.x/1" is                           *)
(* <<"http","s",":","/","/","a.x","/","1">> and "/sorryfoo" is                *)
(* <<"/","sorry","foo">>.                                                     *)
EXTENDS Integers, Sequences, FiniteSets, TLC

\* Largest number of nodes of a response document.
MaxNodes == 3

------------------------------------------------------------------------------
(* String helpers (Python str operations on token sequences).                 *)

RECURSIVE Concat(_)
Concat(ss) == IF ss = <<>> THEN <<>> ELSE Head(ss) \o Concat(Tail(ss))

\* str.startswith
StartsWith(s, p) == Len(s) >= Len(p) /\ SubSeq(s, 1, Len(p)) = p

\* The first position of s holding a token of cs, Len(s) + 1 when there is none.
IndexOfAny(s, cs) ==
  LET hits == {k \in 1..Len(s) : s[k] \in cs}
  IN  IF hits = {} THEN Len(s) + 1
      ELSE CHOOSE k \in hits : \A m \in hits : k <= m

Whitespace == {" ", "\n"}

\* str.strip()
RECURSIVE LStrip(_)
LStrip(s) == IF s # <<>> /\ Head(s) \in Whitespace THEN LStrip(Tail(s)) ELSE s

RECURSIVE RStrip(_)
RStrip(s) ==
  IF s # <<>> /\ s[Len(s)] \in Whitespace THEN RStrip(SubSeq(s, 1, Len(s) - 1)) ELSE s

Strip(s) == RStrip(LStrip(s))

\* ' '.join(text.split()): every run of whitespace inside s becomes one " ".
RECURSIVE Collapse(_)
Collapse(s) ==
  IF s = <<>> THEN <<>>
  ELSE IF Head(s) \in Whitespace
       THEN <<" ">> \o Collapse(LStrip(s))
       ELSE <<Head(s)>> \o Collapse(Tail(s))

\* sep.join(parts)
RECURSIVE Join(_, _)
Join(sep, parts) ==
  IF parts = <<>> THEN <<>>
  ELSE IF Len(parts) = 1 THEN parts[1]
  ELSE parts[1] \o sep \o Join(sep, Tail(parts))

------------------------------------------------------------------------------
(* Collaborators of the engine.                                               *)

\* urlparse(url): scheme://netloc/path?query#fragment
urlparse(url) ==
  LET c       == IndexOfAny(url, {":"})
      scheme  == IF 1 < c /\ c <= Len(url) THEN SubSeq(url, 1, c - 1) ELSE <<>>
      rest    == IF scheme # <<>> THEN SubSeq(url, c + 1, Len(url)) ELSE url
      slashes == StartsWith(rest, <<"/", "/">>)
      after   == IF slashes THEN SubSeq(rest, 3, Len(rest)) ELSE rest
      e       == IF slashes THEN IndexOfAny(after, {"/", "?", "#"}) ELSE 1
      tail    == SubSeq(after, e, Len(after))
      p       == IndexOfAny(tail, {"?", "#"})
  IN  [scheme |-> scheme,
       netloc |-> SubSeq(after, 1, e - 1),
       path   |-> SubSeq(tail, 1, p - 1),
       query  |-> SubSeq(tail, p + 1, Len(tail))]

\* quote_plus of one token: letters, digits and "_.-" stay, " " becomes "+",
\* every other character becomes its %XX escape.
QuoteTok(t) ==
  CASE t = " " -> "+"
    [] t = ":" -> "%3A"
    [] t = "/" -> "%2F"
    [] t = "?" -> "%3F"
    [] t = "&" -> "%26"
    [] t = "=" -> "%3D"
    [] t = ";" -> "%3B"
    [] t = "," -> "%2C"
    [] t = "+" -> "%2B"
    [] OTHER   -> t

quote_plus(s) == [k \in 1..Len(s) |-> QuoteTok(s[k])]

\* urlencode({key: value})
urlencode(key, value) == quote_plus(key) \o <<"=">> \o quote_plus(value)

\* re.findall('http[^;]*', s): the non-overlapping matches, left to right.
RECURSIVE re_findall_http(_)
re_findall_http(s) ==
  LET b == IndexOfAny(s, {"http"})
  IN  IF b > Len(s) THEN <<>>
      ELSE LET from == SubSeq(s, b, Len(s))
               e    == IndexOfAny(from, {";"})
           IN  <<SubSeq(from, 1, e - 1)>> \o re_findall_http(SubSeq(from, e, Len(from)))

\* An xpath result is an element (its text is what counts) or an attribute string.
El(text) == [el |-> TRUE, v |-> text]
At(text) == [el |-> FALSE, v |-> text]

\* extract_text of one xpath result: an attribute string as it is, an element's
\* text stripped and with its whitespace runs collapsed.
extract_one(r) == IF r.el THEN Collapse(Strip(r.v)) ELSE r.v

\* extract_text of a list of xpath results: the texts concatenated, then stripped.
\* The empty list gives the empty string.
extract_text(xpath_results) ==
  Strip(Concat([k \in 1..Len(xpath_results) |-> extract_one(xpath_results[k])]))

\* gettext(msgid) under the locale of the running request.
gettext(msgid, lc) ==
  IF lc = "de" /\ msgid = "CAPTCHA required" THEN "CAPTCHA erforderlich" ELSE msgid

\* str.upper() of a country code.
Upper(t) ==
  CASE t = "de" -> "DE"
    [] t = "ca" -> "CA"
    [] t = "us" -> "US"
    [] OTHER    -> t

\* get_lang_country(params, supported_languages, language_aliases)
get_lang_country(p) ==
  LET language == IF p["language"] = <<"all">> THEN <<"en", "-", "US">> ELSE p["language"]
      d        == IndexOfAny(language, {"-"})
  IN  [language |-> SubSeq(language, 1, d - 1),
       country  |-> IF d < Len(language) THEN SubSeq(language, d + 1, Len(language))
                    ELSE <<"US">>]

\* The tables imported from searx.engines.google.
GoogleDomains == ("US" :> "google.com") @@ ("DE" :> "google.de") @@ ("CA" :> "google.ca")
TimeRangeDict == ("day" :> "d") @@ ("week" :> "w") @@ ("month" :> "m") @@ ("year" :> "y")
FilterMapping == (0 :> "off") @@ (1 :> "medium") @@ (2 :> "high")

------------------------------------------------------------------------------
(* State.                                                                     *)

VARIABLES
  \* request: the caller's query and params, and the shared tables
  query,            \* the search terms of the last request call
  params,           \* the params dict request fills in
  called,           \* whether request has returned at least once
  google_domains,   \* country code -> domain
  time_range_dict,  \* time range -> filter token
  filter_mapping,   \* safesearch level -> filter token
  \* response: the transport's answer and the run of response(resp)
  resp_url,         \* resp.url, the final URL after redirects
  resp_text,        \* resp.text, as the document it parses to
  url_host,         \* (history) the host resp.url was assembled from
  url_path,         \* (history) the path resp.url was assembled from
  locale,           \* the locale gettext translates to
  pc,               \* "idle", "called", "loop", "returned" or "raised"
  dom,              \* the parsed document, <<>> before html.fromstring
  blocks,           \* the positions in dom the result xpath selected
  i,                \* the position in blocks of the next loop iteration
  results,          \* the list response accumulates
  from_block,       \* (history) for each result, the position in dom of its block
  visited,          \* (history) the number of loop iterations begun
  logged,           \* the number of logger.error calls
  raised            \* the message of the RuntimeWarning raised, "" when none

request_vars  == <<query, params, called, google_domains, time_range_dict, filter_mapping>>
response_vars == <<resp_url, resp_text, url_host, url_path, locale, pc, dom, blocks, i,
                   results, from_block, visited, logged, raised>>
vars == <<request_vars, response_vars>>

------------------------------------------------------------------------------
(* request(query, params)                                                     *)

AcceptValue == <<"text/html,application/xhtml+xml,application/xml;q=0.9,image/webp,*/*;q=0.8">>

\* A plausible slip of lines 72-73: the token looked up with a default, for every
\* time range that is set.
time_range_param_unchecked(p) ==
  IF p["time_range"] # "None"
  THEN <<"&">> \o urlencode(<<"tbs">>,
                  <<"qdr", ":">> \o (IF p["time_range"] \in DOMAIN time_range_dict
                                     THEN <<time_range_dict[p["time_range"]]>> ELSE <<>>))
  ELSE <<>>

\* lines 72-73: the time filter, only for a time range the table knows.
time_range_param(p) ==
  IF p["time_range"] \in DOMAIN time_range_dict
  THEN <<"&">> \o urlencode(<<"tbs">>, <<"qdr", ":", time_range_dict[p["time_range"]]>>)
  ELSE <<>>

\* lines 74-75: the safesearch filter, only for a level that is not 0.
safesearch_param(p) ==
  IF p["safesearch"] # 0
  THEN <<"&">> \o urlencode(<<"safe">>, <<filter_mapping[p["safesearch"]]>>)
  ELSE <<>>

\* lines 61-77: the URL request assembles, the fixed parameters and then the
\* optional ones.
query_url(q, p) ==
  LET lc        == get_lang_country(p)
      language  == lc.language
      country   == lc.country
      cc        == Upper(country[1])
      subdomain == <<"news.">> \o
                   <<IF cc \in DOMAIN google_domains THEN google_domains[cc] ELSE "google.com">>
      base      == <<"https", ":", "/", "/">> \o subdomain \o <<"/", "search", "?">>
                     \o urlencode(<<"q">>, q)
                     \o <<"&">> \o urlencode(<<"hl">>, language \o <<"-">> \o country)
                     \o <<"&">> \o urlencode(<<"lr">>, <<"lang_">> \o language)
                     \o <<"&">> \o urlencode(<<"ie">>, <<"utf8">>)
                     \o <<"&">> \o urlencode(<<"oe">>, <<"utf8">>)
  IN  base \o time_range_param(p) \o safesearch_param(p)

\* The Accept-Language header: en-US,en;q=0.8,en;q=0.5
accept_language(p) ==
  LET lc == get_lang_country(p)
  IN  lc.language \o <<"-">> \o lc.country \o <<",">> \o lc.language
        \o <<";", "q=0.8", ",">> \o lc.language \o <<";", "q=0.5">>

\* The headers request sets on top of the ones params came with.
request_headers(p) ==
  ("Accept" :> AcceptValue) @@ ("Accept-Language" :> accept_language(p)) @@ p["headers"]

\* A plausible slip: the start parameter of the paging Google engines.
request_paging(q, p) ==
  [p EXCEPT !["url"] = query_url(q, p) \o
                         (IF p["pageno"] > 1
                          THEN <<"&">> \o urlencode(<<"start">>, <<"10">>) ELSE <<>>),
            !["headers"] = request_headers(p)]

\* A plausible slip: line 89 active, params['google_subdomain'] = subdomain.
request_subdomain(q, p) ==
  ("google_subdomain" :> <<"news.google.com">>)
    @@ [p EXCEPT !["url"] = query_url(q, p), !["headers"] = request_headers(p)]

\* lines 58-91: the params dict request returns.
request(q, p) ==
  [p EXCEPT !["url"] = query_url(q, p), !["headers"] = request_headers(p)]

\* The search terms callers send.
Queries ==
  { <<"news">>,
    <<"a", " ", "b">>,
    <<"x", "&", "start", "=", "10">>,
    <<"x", "&", "tbs", "=", "qdr", ":", "d">>,
    <<"x", "&", "hl", "=", "fr", "-", "FR">> }

Languages == { <<"all">>, <<"en", "-", "US">>, <<"de">>, <<"de", "-", "de">>, <<"fr", "-", "CA">>,
               <<"pt", "-", "BR">> }

\* "None" stands for Python's None; "hour" and "" are no keys of time_range_dict.
TimeRanges == {"None", "day", "week", "month", "year", "hour", ""}

InitialHeaders == { <<>>, ("User-Agent" :> <<"searx">>) @@ ("Accept" :> <<"*/*">>) }

\* The params the caller hands to request: url is '' until request sets it.
InitialParams ==
  { [k \in {"language", "time_range", "safesearch", "pageno", "url", "headers"} |->
       CASE k = "language"   -> l
         [] k = "time_range" -> t
         [] k = "safesearch" -> s
         [] k = "pageno"     -> n
         [] k = "url"        -> <<>>
         [] k = "headers"    -> h] :
    l \in Languages, t \in TimeRanges, s \in {0, 1, 2}, n \in {1, 2}, h \in InitialHeaders }

IdleRequest ==
  /\ query = <<>>
  /\ params = CHOOSE p \in InitialParams : TRUE
  /\ called = FALSE

Tables ==
  /\ google_domains = GoogleDomains
  /\ time_range_dict = TimeRangeDict
  /\ filter_mapping = FilterMapping

IdleResponse ==
  /\ resp_url = <<>> /\ resp_text = <<>> /\ url_host = <<>> /\ url_path = <<>>
  /\ locale = "en" /\ pc = "idle" /\ dom = <<>> /\ blocks = <<>> /\ i = 1
  /\ results = <<>> /\ from_block = <<>> /\ visited = 0 /\ logged = 0 /\ raised = ""

InitRequest ==
  /\ query = <<>>
  /\ params \in InitialParams
  /\ called = FALSE
  /\ Tables
  /\ IdleResponse

\* The caller calls request with its params (a fresh dict, or the one a call returned).
Request ==
  /\ \E q \in Queries :
       /\ query' = q
       /\ params' = request(q, params)
  /\ called' = TRUE
  /\ UNCHANGED <<google_domains, time_range_dict, filter_mapping>>
  /\ UNCHANGED response_vars

NextRequest == Request

SpecRequest == InitRequest /\ [][NextRequest]_vars

------------------------------------------------------------------------------
(* The response document.                                                     *)
(*                                                                            *)
(* A document is the sequence of its nodes in document order.  A node of      *)
(* kind "parent" opens a new parent element (and closes the one before), so   *)
(* the preceding siblings of a node are the nodes between the last "parent"   *)
(* before it and the node itself.  A node of kind "block" is a                *)
(* <div class="xrnccd">, given by what the xpath queries of the loop body     *)
(* find in it; a node of kind "a" is an <a> element, given by the src         *)
(* attributes of its figure/img children; kind "other" is any other element.  *)

Node(kind, jslog, href, h3, div1, time, origin, img) ==
  [kind |-> kind, jslog |-> jslog, href |-> href, h3 |-> h3, div1 |-> div1,
   time |-> time, origin |-> origin, img |-> img]

ParentNode == Node("parent", <<>>, <<>>, <<>>, <<>>, <<>>, <<>>, <<>>)
OtherNode  == Node("other", <<>>, <<>>, <<>>, <<>>, <<>>, <<>>, <<>>)
ANode(img) == Node("a", <<>>, <<>>, <<>>, <<>>, <<>>, <<>>, img)

\* jslog="95014; 4:https://a.x/1; track:click"
JslogA == <<"95014", ";", " ", "4", ":", "http", "s", ":", "/", "/", "a.x", "/", "1", ";",
            " ", "track", ":", "click">>
UrlA   == <<"http", "s", ":", "/", "/", "a.x", "/", "1">>
\* jslog="4:http://b.x/2" (no field after the URL)
JslogB == <<"4", ":", "http", ":", "/", "/", "b.x", "/", "2">>
UrlB   == <<"http", ":", "/", "/", "b.x", "/", "2">>
\* jslog="95014; track:click" (no URL field)
JslogNoUrl == <<"95014", ";", " ", "track", ":", "click">>
\* jslog="95014; 4:httpfoo; track:click" (a field that starts with http and is no URL)
JslogLoose == <<"95014", ";", " ", "4", ":", "http", "foo", ";", " ", "track", ":", "click">>
\* jslog="4:https://a.x/1; 5:http://b.x/2" (two URL fields)
JslogTwo == <<"4", ":", "http", "s", ":", "/", "/", "a.x", "/", "1", ";", " ", "5", ":",
              "http", ":", "/", "/", "b.x", "/", "2">>

\* href="./articles/CAIiENu3nGS?hl=en-US"
HrefA == <<".", "/", "articles", "/", "CAIiENu3nGS", "?", "hl", "=", "en", "-", "US">>
HrefB == <<".", "/", "articles", "/", "CBMiXmh0dHBz">>

ImgA == <<"http", "s", ":", "/", "/", "lh3.googleusercontent.com", "/", "DjhQh7DMszk">>
ImgB == <<"http", "s", ":", "/", "/", "lh3.googleusercontent.com", "/", "Zk8wq">>

\* The result blocks of differing structure.
BlockFull    == Node("block", <<JslogA>>, HrefA, <<El(<<"Title", " ", "A">>)>>,
                     <<El(<<"snippet", " ", "a">>)>>, <<El(<<"yesterday">>)>>,
                     <<El(<<"CNN">>)>>, <<>>)
BlockPlain   == Node("block", <<JslogB>>, HrefB, <<El(<<"Title", " ", "B">>)>>,
                     <<El(<<"snippet", " ", "b">>)>>, <<>>, <<>>, <<>>)
BlockNoLink  == Node("block", <<>>, <<>>, <<El(<<"Title", " ", "C">>)>>,
                     <<El(<<"snippet", " ", "c">>)>>, <<>>, <<>>, <<>>)
BlockNoUrl   == Node("block", <<JslogNoUrl>>, HrefA, <<El(<<"Title", " ", "D">>)>>,
                     <<El(<<"snippet", " ", "d">>)>>, <<El(<<"today">>)>>, <<>>, <<>>)
BlockNoTitle == Node("block", <<JslogA>>, HrefA, <<>>,
                     <<El(<<"snippet", " ", "e">>)>>, <<>>, <<>>, <<>>)

\* The nodes the documents of the structural runs are made of.
StructNodes ==
  { BlockFull, BlockPlain, BlockNoLink, BlockNoUrl, BlockNoTitle,
    ANode(<<At(ImgA)>>), ANode(<<>>), ParentNode }

\* The result blocks of differing field contents: every combination of link,
\* snippet, date and publisher.
FieldBlocks ==
  { Node("block", j, HrefA, t, d1, tm, og, <<>>) :
      j  \in { <<JslogA>>, <<JslogB>>, <<JslogLoose>>, <<JslogTwo>>, <<JslogB, JslogA>> },
      t  \in { <<El(<<"Title">>)>> },
      d1 \in { <<>>, <<El(<<"snippet">>)>>, <<El(<<" ", "two", "\n", " ", "words", " ">>)>> },
      tm \in { <<>>, <<El(<<"2", " ", "hours", " ", "ago">>)>>,
               <<El(<<"yesterday">>), El(<<"2019">>)>> },
      og \in { <<>>, <<El(<<"CNN">>)>>, <<El(<<" ">>)>> } }

\* All sequences of at most n nodes of S.
RECURSIVE SeqsUpTo(_, _)
SeqsUpTo(S, n) ==
  IF n = 0 THEN { <<>> }
  ELSE LET shorter == SeqsUpTo(S, n - 1)
       IN  shorter \cup { Append(d, x) : d \in shorter, x \in S }

StructDocs == SeqsUpTo(StructNodes, MaxNodes)
FieldDocs  == { <<a, b>> : a \in { ANode(<<At(ImgA)>>), OtherNode }, b \in FieldBlocks }

\* The final URLs the transport reports: host, path and query.
FinalUrls ==
  { [host |-> <<"news.google.com">>,  path |-> <<"/", "search">>,
     query |-> <<"?", "q", "=", "/", "sorry", "/", "IndexRedirect">>],
    [host |-> <<"news.google.de">>,   path |-> <<"/", "x", "/", "sorry">>, query |-> <<>>],
    [host |-> <<"sorry.google.com">>, path |-> <<"/", "search">>, query |-> <<>>],
    [host |-> <<"sorry.google.com">>, path |-> <<"/", "sorry", "/", "index">>,
     query |-> <<"?", "continue", "=", "x">>],
    [host |-> <<"www.google.com">>,   path |-> <<"/", "sorry", "/", "IndexRedirect">>,
     query |-> <<"?", "continue", "=", "x">>],
    [host |-> <<"www.google.com">>,   path |-> <<"/", "sorry", "/", "index">>, query |-> <<>>],
    [host |-> <<"news.google.com">>,  path |-> <<"/", "sorry", "foo">>, query |-> <<>>],
    [host |-> <<"news.google.com">>,  path |-> <<"/", "sorry", "/", "IndexRedirect", "/">>,
     query |-> <<>>] }

Locales == {"en", "de"}

------------------------------------------------------------------------------
(* response(resp)                                                             *)

\* A plausible slip of line 100: "and" for "or".
is_sorry_and(u) ==
  u.netloc = <<"sorry.google.com">> /\ u.path = <<"/", "sorry", "/", "IndexRedirect">>

\* line 100: the hard block
is_sorry(u) ==
  u.netloc = <<"sorry.google.com">> \/ u.path = <<"/", "sorry", "/", "IndexRedirect">>

\* A plausible slip of line 103: the path compared, not its prefix.
is_captcha_exact(u) == u.path = <<"/", "sorry">>

\* line 103: the CAPTCHA page
is_captcha(u) == StartsWith(u.path, <<"/", "sorry">>)

\* eval_xpath(dom, '//div[@class="xrnccd"]'): the blocks, in document order.
RECURSIVE select_blocks(_, _)
select_blocks(d, k) ==
  IF k > Len(d) THEN <<>>
  ELSE (IF d[k].kind = "block" THEN <<k>> ELSE <<>>) \o select_blocks(d, k + 1)

\* The positions of the preceding siblings of node k, in document order.
preceding_siblings(d, k) ==
  LET parents == {j \in 1..(k - 1) : d[j].kind = "parent"}
      first   == IF parents = {} THEN 1
                 ELSE 1 + CHOOSE j \in parents : \A m \in parents : m <= j
  IN  [n \in 1..(k - first) |-> first + n - 1]

\* result.xpath('preceding-sibling::a/figure/img/@src'): the src of every image
\* of every preceding sibling <a>, in document order.
xpath_img_src(d, k) ==
  LET sib == preceding_siblings(d, k)
  IN  Concat([n \in 1..Len(sib) |-> IF d[sib[n]].kind = "a" THEN d[sib[n]].img ELSE <<>>])

\* A plausible slip of lines 138-145: both parts joined, empty or not.
compose_content_join_all(pub_origin, pub_date, content) ==
  LET pub_info == Join(<<",", " ">>, <<pub_origin, pub_date>>)
  IN  IF pub_info # <<>> THEN pub_info \o <<":", " ">> \o content ELSE content

\* lines 138-147: the snippet with the publisher and the date in front.
compose_content(pub_origin, pub_date, content) ==
  LET pub_info == Join(<<",", " ">>,
                       (IF pub_origin # <<>> THEN <<pub_origin>> ELSE <<>>)
                         \o (IF pub_date # <<>> THEN <<pub_date>> ELSE <<>>))
  IN  IF pub_info # <<>> THEN pub_info \o <<":", " ">> \o content ELSE content

NoRecord == [url |-> <<>>, title |-> <<>>, content |-> <<>>, img_src |-> <<>>]

\* A plausible change of lines 124-160: a block without a title raises too.
try_block_title_required(d, k) ==
  LET result == d[k]
      jslog  == result.jslog
      found  == IF jslog = <<>> THEN <<>> ELSE re_findall_http(jslog[1])
  IN  IF jslog = <<>> \/ found = <<>> \/ extract_text(result.h3) = <<>>
      THEN [exc |-> TRUE, rec |-> NoRecord]
      ELSE [exc |-> FALSE,
            rec |-> [url     |-> found[1],
                     title   |-> extract_text(result.h3),
                     content |-> compose_content(extract_text(result.origin),
                                                 extract_text(result.time),
                                                 extract_text(result.div1)),
                     img_src |-> extract_text(xpath_img_src(d, k))]]

\* lines 124-160, the body of the try: the record of block k, or the exception
\* ([0] of an empty list raises IndexError).
try_block(d, k) ==
  LET result == d[k]
      jslog  == result.jslog
      found  == IF jslog = <<>> THEN <<>> ELSE re_findall_http(jslog[1])
  IN  IF jslog = <<>> \/ found = <<>>
      THEN [exc |-> TRUE, rec |-> NoRecord]
      ELSE [exc |-> FALSE,
            rec |-> [url     |-> found[1],
                     title   |-> extract_text(result.h3),
                     content |-> compose_content(extract_text(result.origin),
                                                 extract_text(result.time),
                                                 extract_text(result.div1)),
                     img_src |-> extract_text(xpath_img_src(d, k))]]

\* lines 99-101
RaiseSorry ==
  /\ pc = "called"
  /\ is_sorry(urlparse(resp_url))
  /\ pc' = "raised"
  /\ raised' = "sorry.google.com"
  /\ UNCHANGED <<resp_url, resp_text, url_host, url_path, locale, dom, blocks, i, results,
                 from_block, visited, logged>>
  /\ UNCHANGED request_vars

\* lines 103-104
RaiseCaptcha ==
  /\ pc = "called"
  /\ ~is_sorry(urlparse(resp_url))
  /\ is_captcha(urlparse(resp_url))
  /\ pc' = "raised"
  /\ raised' = gettext("CAPTCHA required", locale)
  /\ UNCHANGED <<resp_url, resp_text, url_host, url_path, locale, dom, blocks, i, results,
                 from_block, visited, logged>>
  /\ UNCHANGED request_vars

\* lines 110-112: parse the text and select the blocks
Parse ==
  /\ pc = "called"
  /\ ~is_sorry(urlparse(resp_url))
  /\ ~is_captcha(urlparse(resp_url))
  /\ dom' = resp_text
  /\ blocks' = select_blocks(resp_text, 1)
  /\ i' = 1
  /\ pc' = "loop"
  /\ UNCHANGED <<resp_url, resp_text, url_host, url_path, locale, results, from_block,
                 visited, logged, raised>>
  /\ UNCHANGED request_vars

\* A plausible slip of lines 112-164: the try around the loop, so that the first
\* exception ends it.
Iterate_break ==
  /\ pc = "loop"
  /\ i <= Len(blocks)
  /\ LET r == try_block(dom, blocks[i])
     IN  IF r.exc
         THEN /\ logged' = logged + 1
              /\ i' = Len(blocks) + 1
              /\ UNCHANGED <<results, from_block>>
         ELSE /\ results' = Append(results, r.rec)
              /\ from_block' = Append(from_block, blocks[i])
              /\ i' = i + 1
              /\ UNCHANGED logged
  /\ visited' = visited + 1
  /\ UNCHANGED <<resp_url, resp_text, url_host, url_path, locale, pc, dom, blocks, raised>>
  /\ UNCHANGED request_vars

\* lines 112-164: one iteration of the loop
Iterate ==
  /\ pc = "loop"
  /\ i <= Len(blocks)
  /\ LET r == try_block(dom, blocks[i])
     IN  IF r.exc
         THEN /\ logged' = logged + 1
              /\ UNCHANGED <<results, from_block>>
         ELSE /\ results' = Append(results, r.rec)
              /\ from_block' = Append(from_block, blocks[i])
              /\ UNCHANGED logged
  /\ visited' = visited + 1
  /\ i' = i + 1
  /\ UNCHANGED <<resp_url, resp_text, url_host, url_path, locale, pc, dom, blocks, raised>>
  /\ UNCHANGED request_vars

\* line 167
Return ==
  /\ pc = "loop"
  /\ i > Len(blocks)
  /\ pc' = "returned"
  /\ UNCHANGED <<resp_url, resp_text, url_host, url_path, locale, dom, blocks, i, results,
                 from_block, visited, logged, raised>>
  /\ UNCHANGED request_vars

\* response is called with the transport's answer: any final URL, any document.
InitResponseOver(docs) ==
  /\ IdleRequest
  /\ Tables
  /\ \E u \in FinalUrls :
       /\ url_host = u.host
       /\ url_path = u.path
       /\ resp_url = <<"https", ":", "/", "/">> \o u.host \o u.path \o u.query
  /\ resp_text \in docs
  /\ locale \in Locales
  /\ pc = "called" /\ dom = <<>> /\ blocks = <<>> /\ i = 1
  /\ results = <<>> /\ from_block = <<>> /\ visited = 0 /\ logged = 0 /\ raised = ""

Init == InitResponseOver(StructDocs)

InitFields == InitResponseOver(FieldDocs)

Next == RaiseSorry \/ RaiseCaptcha \/ Parse \/ Iterate \/ Return

Spec == Init /\ [][Next]_vars

SpecFields == InitFields /\ [][Next]_vars

------------------------------------------------------------------------------
(* Properties of response.                                                    *)

Range(f) == {f[k] : k \in DOMAIN f}

\* The final URL is the hard-block case, by the host and path it was assembled from.
HardBlockUrl ==
  url_host = <<"sorry.google.com">> \/ url_path = <<"/", "sorry", "/", "IndexRedirect">>

\* The final URL's path starts with /sorry.
SorryPrefixUrl == StartsWith(url_path, <<"/", "sorry">>)

HasBlock(d) == \E k \in DOMAIN d : d[k].kind = "block"

\* The first jslog attribute of the block's article link holds an http field.
HasLink(b) == b.jslog # <<>> /\ "http" \in Range(b.jslog[1])

\* A block with everything the loop body reads from the article.
WellFormed(b) == b.kind = "block" /\ HasLink(b) /\ b.h3 # <<>> /\ b.div1 # <<>>

\* A block whose article link is missing or carries no URL.
Broken(b) == b.kind = "block" /\ ~HasLink(b)

Increasing(f) == \A a, b \in DOMAIN f : a < b => f[a] < f[b]

\* C1: when the final URL has host sorry.google.com or path /sorry/IndexRedirect,
\* the test of line 100 holds of it and response raises RuntimeWarning('sorry.google.com'), and it does so before the
\* text is parsed: no block is selected or visited and no record is produced,
\* whatever the document holds.
C1_HardBlockRaisesFirst ==
  HardBlockUrl =>
    /\ is_sorry(urlparse(resp_url))
    /\ pc # "called" =>
         /\ pc = "raised" /\ raised = "sorry.google.com"
         /\ dom = <<>> /\ blocks = <<>> /\ visited = 0 /\ logged = 0 /\ results = <<>>

\* The hard block was raised for its path alone, on a document that holds blocks.
C1_Witness ==
  /\ pc = "raised" /\ raised = "sorry.google.com"
  /\ url_host # <<"sorry.google.com">>
  /\ HasBlock(resp_text)

\* C2: when the final URL's path starts with /sorry and it is not the hard-block
\* case, the test of line 103 is the one that holds of it and response raises RuntimeWarning(gettext('CAPTCHA required')) and returns no
\* record; when the path starts with /sorry and the hard-block case holds too, the
\* hard-block message is the one raised.
C2_CaptchaRaised ==
  /\ (SorryPrefixUrl /\ ~HardBlockUrl) =>
       /\ ~is_sorry(urlparse(resp_url)) /\ is_captcha(urlparse(resp_url))
       /\ pc # "called" =>
            /\ pc = "raised"
            /\ raised = (IF locale = "de" THEN "CAPTCHA erforderlich" ELSE "CAPTCHA required")
            /\ results = <<>> /\ visited = 0
  /\ (SorryPrefixUrl /\ HardBlockUrl /\ pc # "called") =>
       pc = "raised" /\ raised = "sorry.google.com"

\* The CAPTCHA was raised for a path that only starts with /sorry.
C2_Witness ==
  /\ pc = "raised" /\ raised = "CAPTCHA required"
  /\ url_path = <<"/", "sorry", "foo">>
  /\ HasBlock(resp_text)

\* The document holds well-formed blocks and exactly one broken block, and nothing
\* else that is a block.
OneBrokenAmongWellFormed(d) ==
  /\ \A k \in DOMAIN d : d[k].kind = "block" => WellFormed(d[k]) \/ Broken(d[k])
  /\ Cardinality({k \in DOMAIN d : Broken(d[k])}) = 1

\* C3: when response returns for a document of N well-formed blocks and one broken
\* block at any position among them, it returns exactly N records, one per
\* well-formed block and in the document order of those blocks; the broken block
\* gives no record, nothing is raised, and the blocks after it are extracted.
C3_BrokenBlockIsolated ==
  (pc = "returned" /\ OneBrokenAmongWellFormed(dom)) =>
    LET wf == {k \in DOMAIN dom : WellFormed(dom[k])}
    IN  /\ Len(results) = Cardinality(wf)
        /\ Len(from_block) = Len(results)
        /\ Range(from_block) = wf
        /\ Increasing(from_block)
        /\ \A k \in DOMAIN results :
             /\ results[k].title = extract_text(dom[from_block[k]].h3)
             /\ results[k].title # <<>>
        /\ raised = ""
        /\ logged = 1
        /\ visited = Cardinality(wf) + 1

\* response returned two records for a document whose second block is broken.
C3_Witness ==
  /\ pc = "returned"
  /\ Len(dom) = 3
  /\ WellFormed(dom[1]) /\ Broken(dom[2]) /\ WellFormed(dom[3])
  /\ Len(results) = 2

\* A full URL: http:// or https:// and a host after it.
IsAbsoluteHttpUrl(u) ==
  \/ /\ StartsWith(u, <<"http", ":", "/", "/">>)
     /\ Len(u) > 4 /\ u[5] \notin {"/", "?", "#", ":", ";", " "}
  \/ /\ StartsWith(u, <<"http", "s", ":", "/", "/">>)
     /\ Len(u) > 5 /\ u[6] \notin {"/", "?", "#", ":", ";", " "}

\* C4: the url of every record response produces is an absolute http(s) URL taken
\* from the jslog attribute of the article link, and is not the value of the
\* link's href, whatever the jslog attribute holds.
C4_UrlIsAbsolute ==
  \A k \in DOMAIN results :
    LET b == dom[from_block[k]]
    IN  /\ IsAbsoluteHttpUrl(results[k].url)
        /\ results[k].url # b.href
        /\ \E a \in 1..Len(b.jslog[1]) :
             StartsWith(SubSeq(b.jslog[1], a, Len(b.jslog[1])), results[k].url)

\* C5: for every record, with S, P and D the snippet, publisher and date texts of
\* its block: the content is P + ', ' + D + ': ' + S when P and D are both
\* non-empty, D + ': ' + S when only D is, P + ': ' + S when only P is, and S
\* when both are empty.
C5_ContentPrefix ==
  \A k \in DOMAIN results :
    LET b == dom[from_block[k]]
        S == extract_text(b.div1)
        P == extract_text(b.origin)
        D == extract_text(b.time)
        c == results[k].content
    IN  /\ (P # <<>> /\ D # <<>>) => c = P \o <<",", " ">> \o D \o <<":", " ">> \o S
        /\ (P = <<>> /\ D # <<>>) => c = D \o <<":", " ">> \o S
        /\ (P # <<>> /\ D = <<>>) => c = P \o <<":", " ">> \o S
        /\ (P = <<>> /\ D = <<>>) => c = S

\* A record of a block with a date, no publisher and a snippet of two words.
C5_Witness ==
  /\ pc = "returned"
  /\ Len(results) = 1
  /\ dom[from_block[1]].origin = <<>>
  /\ results[1].content =
       <<"2", " ", "hours", " ", "ago", ":", " ", "two", " ", "words">>

\* The src of the image of the sibling right before node j, <<>> when node j has
\* no sibling before it or that sibling holds no image.
ImmediateImage(d, j) ==
  IF j > 1 /\ d[j - 1].kind = "a" /\ d[j - 1].img # <<>> THEN d[j - 1].img[1].v ELSE <<>>

\* C8: the img_src of every record is the src of the image in the sibling right
\* before the record's block, and is empty when that sibling holds no image; a
\* block without an image gives a record all the same.
C8_ThumbnailOfImmediateSibling ==
  /\ \A k \in DOMAIN results :
       results[k].img_src = ImmediateImage(dom, from_block[k])
  /\ pc = "returned" =>
       \A j \in DOMAIN dom : WellFormed(dom[j]) => j \in Range(from_block)

\* C9 as claimed: a block whose article holds no h3 gives no record.
C9_NoTitleNoRecord ==
  pc = "returned" =>
    \A j \in DOMAIN dom :
      (dom[j].kind = "block" /\ dom[j].h3 = <<>>) => j \notin Range(from_block)

\* C9, amended: a block is skipped exactly when its article link gives no URL (no
\* jslog attribute, or no http field in the first one), and the blocks after a
\* skipped block are still extracted; a block whose article holds no h3 is not
\* skipped, it gives a record with the empty title.
C9_SkippedIffNoLink ==
  pc = "returned" =>
    /\ \A j \in DOMAIN dom :
         dom[j].kind = "block" => (j \in Range(from_block) <=> HasLink(dom[j]))
    /\ Increasing(from_block)
    /\ Len(results) = Len(from_block)
    /\ logged = Cardinality({j \in DOMAIN dom : Broken(dom[j])})
    /\ \A k \in DOMAIN results :
         dom[from_block[k]].h3 = <<>> => results[k].title = <<>>

\* A block without link was skipped, the block without title after it gave a record
\* with the empty title, and so did the block after that one.
C9_Witness ==
  /\ pc = "returned"
  /\ Len(dom) = 3
  /\ Broken(dom[1])
  /\ dom[2].kind = "block" /\ dom[2].h3 = <<>>
  /\ WellFormed(dom[3])
  /\ from_block = <<2, 3>>
  /\ results[1].title = <<>>

------------------------------------------------------------------------------
(* Properties of request.                                                     *)

\* s cut at every token sep: the pieces between them.
RECURSIVE Split(_, _)
Split(s, sep) ==
  LET e == IndexOfAny(s, {sep})
  IN  IF e > Len(s) THEN <<s>>
      ELSE <<SubSeq(s, 1, e - 1)>> \o Split(SubSeq(s, e + 1, Len(s)), sep)

\* The parameters of a URL as a server reads them: the query cut at every "&",
\* each piece cut at its first "=".
UrlParameters(url) ==
  LET pieces == Split(urlparse(url).query, "&")
  IN  [k \in 1..Len(pieces) |->
         LET e == IndexOfAny(pieces[k], {"="})
         IN  [key   |-> SubSeq(pieces[k], 1, e - 1),
              value |-> SubSeq(pieces[k], e + 1, Len(pieces[k]))]]

\* The values of the parameters named key, in the order of the URL.
ValuesOf(url, key) ==
  LET named == SelectSeq(UrlParameters(url), LAMBDA x : x.key = key)
  IN  [k \in 1..Len(named) |-> named[k].value]

\* The names a pagination parameter goes by.
PagingKeys == { <<"start">>, <<"page">>, <<"pageno">>, <<"p">>, <<"first">>, <<"offset">> }

\* C6: the URL request builds holds no tbs parameter when time_range is None or
\* no key of time_range_dict, and otherwise exactly one, whose value is 'qdr:'
\* followed by the token time_range_dict gives, percent-encoded (qdr%3A<token>).
C6_TimeFilter ==
  called =>
    LET tbs == ValuesOf(params["url"], <<"tbs">>)
        tr  == params["time_range"]
    IN  IF tr \in DOMAIN time_range_dict
        THEN tbs = << <<"qdr", "%3A", time_range_dict[tr]>> >>
        ELSE tbs = <<>>

\* A URL with the time filter of a week, built for terms that spell a tbs parameter.
C6_Witness ==
  /\ called
  /\ params["time_range"] = "week"
  /\ query = <<"x", "&", "tbs", "=", "qdr", ":", "d">>
  /\ ValuesOf(params["url"], <<"tbs">>) = << <<"qdr", "%3A", "w">> >>

\* C7: the URL request builds has one hl parameter, equal to language + '-' +
\* country for the (language, country) get_lang_country resolves, and none of its
\* parameters is a pagination parameter, whatever params['pageno'] is.
C7_HlAndNoPaging ==
  called =>
    LET lc == get_lang_country(params)
        ps == UrlParameters(params["url"])
    IN  /\ ValuesOf(params["url"], <<"hl">>) = << lc.language \o <<"-">> \o lc.country >>
        /\ \A k \in DOMAIN ps : ps[k].key \notin PagingKeys

\* A URL built for page 2 and terms that spell a start parameter.
C7_Witness ==
  /\ called
  /\ params["pageno"] = 2
  /\ params["language"] = <<"fr", "-", "CA">>
  /\ query = <<"x", "&", "start", "=", "10">>
  /\ ValuesOf(params["url"], <<"hl">>) = << <<"fr", "-", "CA">> >>

\* C10: a call of request changes nothing but params['url'] and the headers
\* Accept-Language and Accept: params keeps its keys, every other entry of params
\* (time_range, safesearch, language, pageno) and every other header keep their
\* values, and google_domains, time_range_dict and filter_mapping are unchanged.
C10_RequestFrame ==
  [][ /\ DOMAIN params' = DOMAIN params
      /\ \A k \in DOMAIN params \ {"url", "headers"} : params'[k] = params[k]
      /\ DOMAIN params'["headers"] =
           DOMAIN params["headers"] \cup {"Accept-Language", "Accept"}
      /\ \A h \in DOMAIN params["headers"] \ {"Accept-Language", "Accept"} :
           params'["headers"][h] = params["headers"][h]
      /\ google_domains' = google_domains
      /\ time_range_dict' = time_range_dict
      /\ filter_mapping' = filter_mapping
      /\ response_vars' = response_vars ]_vars

\* request has run on params that came with a User-Agent and an Accept header.
C10_Witness ==
  /\ called
  /\ params["url"] # <<>>
  /\ "User-Agent" \in DOMAIN params["headers"]
  /\ params["headers"]["User-Agent"] = <<"searx">>
  /\ params["headers"]["Accept"] = AcceptValue
  /\ params["pageno"] = 2

====
